---- MODULE Spec2Model ----
(***************************************************************************)
(* Model of src/app.js: an Express application with nine route handlers    *)
(* over two Sequelize models, Category and Expense, kept in SQLite.        *)
(*                                                                         *)
(* A handler is an async function: it runs synchronously up to its first   *)
(* store call, and every `await` of a store call is a suspension point.    *)
(* A request is a record whose pc names the store call it is waiting for;  *)
(* Step executes that call on the store and runs the handler up to its     *)
(* next store call or its response, and Run is Step repeated from the      *)
(* request's arrival to its end.                                           *)
(***************************************************************************)
EXTENDS Integers, FiniteSets, Sequences, TLC

VARIABLES
    Category,   \* rows of the Categories table: [id, name]
    Expense,    \* rows of the Expenses table: [id, amount, description, date, categoryId]
    seq,        \* SQLite AUTOINCREMENT sequence of each table (last id handed out)
    last,       \* the request that completed last, with its response
    before,     \* the tables as they were when that request arrived
    inflight    \* the requests being served concurrently, one per client

vars == <<Category, Expense, seq, last, before, inflight>>

---------------------------------------------------------------------------
(* Bounds *)

MaxCategoryId == 2
MaxExpenseId == 2

---------------------------------------------------------------------------
(* JSON values of a request body.  A field that is omitted reads as        *)
(* `undefined` after destructuring; a supplied one is null or a value.     *)

Undefined == [type |-> "undefined"]
JsonNull == [type |-> "null"]
Some(v) == [type |-> "value", value |-> v]
Nullish == {Undefined, JsonNull}

\* faulty variant: a test for presence (x !== undefined) in place of truthiness
TruthyNumPresent(x) == x \notin Nullish

\* JavaScript truthiness of a number-valued field (!x, x || y)
TruthyNum(x) == x \notin Nullish /\ x.value # 0
\* JavaScript truthiness of a string-valued field
TruthyStr(x) == x \notin Nullish /\ x.value # ""

Names == {"Food", "Rent"}
NameInputs == {Undefined, JsonNull, Some("")} \cup {Some(n) : n \in Names}
AmountInputs == {Undefined, JsonNull, Some(0), Some(5)}
DescriptionInputs == {Undefined, Some(""), Some("Lunch")}
DateInputs == {Undefined, Some(""), Some("2024-01-01")}
CategoryIdInputs == {Undefined, JsonNull} \cup {Some(i) : i \in 0..MaxCategoryId}

InvalidDate == "Invalid date"

\* new Date(date) stored in a DATEONLY column: undefined (and any string that
\* does not parse) gives the Invalid Date value, null the epoch, a calendar
\* date itself.
NewDate(date) ==
    CASE date = Undefined -> InvalidDate
      [] date = JsonNull -> "1970-01-01"
      [] date.value = "" -> InvalidDate
      [] OTHER -> date.value

NoBody ==
    [name |-> Undefined, amount |-> Undefined, description |-> Undefined,
     categoryId |-> Undefined, date |-> Undefined]

Null == [null |-> TRUE]

---------------------------------------------------------------------------
(* The store: the two tables and their id sequences *)

Tables == [Category |-> Category, Expense |-> Expense, seq |-> seq]

\* faulty variants of the lookups: a where clause that never matches, and a findByPk
\* that answers with any row whatever key it is given
FindCategoryByNameNever(st, name) == {}
FindCategoryByPkAny(st, id) ==
    IF id \in Nullish THEN {} ELSE st.Category

\* Category.findOne({ where: { name } }) / Category.findByPk(id): the set of
\* matching rows (empty when the promise resolves to null)
FindCategoryByName(st, name) == {c \in st.Category : c.name = name}
FindCategoryByPk(st, id) ==
    IF id \in Nullish THEN {} ELSE {c \in st.Category : c.id = id.value}
FindExpenseByPk(st, id) == {e \in st.Expense : e.id = id}

\* faulty variants of the count: no where clause result at all, and one short
CountExpensesZero(st, categoryId) == 0
CountExpensesShort(st, categoryId) ==
    Cardinality({e \in st.Expense : e.categoryId = categoryId}) - 1

\* Expense.count({ where: { categoryId } })
CountExpenses(st, categoryId) ==
    Cardinality({e \in st.Expense : e.categoryId = categoryId})

\* faulty variant: a unique index on name that drops the second row
InsertCategoryUnique(st, row) ==
    IF \E c \in st.Category : c.name = row.name THEN st
    ELSE [st EXCEPT !.Category = @ \cup {row}, !.seq.Category = row.id]

\* Model.create: INSERT with the next AUTOINCREMENT id
InsertCategory(st, row) ==
    [st EXCEPT !.Category = @ \cup {row}, !.seq.Category = row.id]
InsertExpense(st, row) ==
    [st EXCEPT !.Expense = @ \cup {row}, !.seq.Expense = row.id]

\* Expense.belongsTo(Category, { foreignKey: 'categoryId' }) with
\* Category.hasMany: sync creates the column categoryId REFERENCES
\* Categories (id) ON DELETE SET NULL ON UPDATE CASCADE, and the sqlite
\* dialect opens its connection with PRAGMA FOREIGN_KEYS=ON.  Ids start at
\* 1; NullId stands for a NULL categoryId.
NullId == 0
ForeignKeyViolation(st, categoryId) ==
    categoryId # NullId /\ \A c \in st.Category : c.id # categoryId

\* instance.save(): UPDATE of the fields that were set to another value than
\* the instance was read with (was), WHERE id = instance.id
SaveCategory(st, row) ==
    [st EXCEPT !.Category = {IF c.id = row.id THEN row ELSE c : c \in @}]
SaveExpense(st, row, was) ==
    [st EXCEPT !.Expense =
        {IF e.id = row.id
         THEN [f \in DOMAIN e |-> IF row[f] # was[f] THEN row[f] ELSE e[f]]
         ELSE e : e \in @}]

\* faulty variant: DELETE ... WHERE name = instance.name
DestroyCategoryByName(st, row) ==
    [st EXCEPT !.Category = {c \in @ : c.name # row.name}]

\* faulty variant: the association declared with constraints: false
DestroyCategoryOnly(st, row) ==
    [st EXCEPT !.Category = {c \in @ : c.id # row.id}]

\* instance.destroy(): DELETE ... WHERE id = instance.id; the foreign key of
\* the expenses that reference the deleted row is SET NULL
DestroyCategory(st, row) ==
    [st EXCEPT !.Category = {c \in @ : c.id # row.id},
               !.Expense = {IF e.categoryId = row.id /\ row \in st.Category
                            THEN [e EXCEPT !.categoryId = NullId] ELSE e : e \in @}]
\* faulty variant: a deletion that leaves the row in the table
DestroyExpenseKept(st, row) == st

DestroyExpense(st, row) ==
    [st EXCEPT !.Expense = {e \in @ : e.id # row.id}]

\* faulty variant: the join made on the expense's own id
WithCategoryOnId(st, e) ==
    [id |-> e.id, amount |-> e.amount, description |-> e.description,
     date |-> e.date, categoryId |-> e.categoryId,
     Category |-> IF \E c \in st.Category : c.id = e.id
                  THEN CHOOSE c \in st.Category : c.id = e.id
                  ELSE Null]

\* include: Category -- the expense with its joined Category (null if none)
WithCategory(st, e) ==
    [id |-> e.id, amount |-> e.amount, description |-> e.description,
     date |-> e.date, categoryId |-> e.categoryId,
     Category |-> IF \E c \in st.Category : c.id = e.categoryId
                  THEN CHOOSE c \in st.Category : c.id = e.categoryId
                  ELSE Null]

---------------------------------------------------------------------------
(* Requests and responses *)

\* a request as it arrives: route, :id parameter (0 when the route has none)
\* and body; `row` is the instance the handler holds between store calls,
\* `thrown` the store call whose promise rejected (none if none did)
Request(route, id, body) ==
    [route |-> route, id |-> id, body |-> body, pc |-> "arrived",
     row |-> Null, thrown |-> "none", status |-> 0, json |-> FALSE, out |-> Null]

Idle == [route |-> "none", id |-> 0, body |-> NoBody, pc |-> "idle",
         row |-> Null, thrown |-> "none", status |-> 0, json |-> FALSE, out |-> Null]

Finished == {"responded", "escaped"}

\* the handler issues its next store call and suspends
Await(r, st, call, row) ==
    [req |-> [r EXCEPT !.pc = call, !.row = row], st |-> st]

\* res.status(code).json(body)
Respond(r, st, code, body) ==
    [req |-> [r EXCEPT !.pc = "responded", !.status = code, !.json = TRUE,
                       !.out = body],
     st |-> st]

Error(message) == [error |-> message]

\* catch (err) { res.status(500).json({ error: err.message }) }
Catch(r, st) ==
    Respond([r EXCEPT !.thrown = r.pc], st, 500, Error("err.message"))

\* a rejection of an awaited store call outside any try block rejects the
\* promise of the async handler: nothing in the handler answers the request
Reject(r, st) ==
    [req |-> [r EXCEPT !.thrown = r.pc, !.pc = "escaped"], st |-> st]

---------------------------------------------------------------------------
(* Category routes.  Each operator is one handler: given the request at    *)
(* its pc, the store, and whether the awaited store call succeeds (ok),    *)
(* it gives the request and the store after the call and the code that     *)
(* follows it.                                                             *)

\* app.get('/categories')
GetCategories(r, st, ok) ==
    CASE r.pc = "arrived" -> Await(r, st, "findAll", Null)
      [] r.pc = "findAll" ->
            IF ~ok THEN Catch(r, st)
            ELSE Respond(r, st, 200, st.Category)

\* app.post('/categories')
PostCategories(r, st, ok) ==
    CASE r.pc = "arrived" ->
            IF ~TruthyStr(r.body.name)
            THEN Respond(r, st, 400, Error("Category name is required"))
            ELSE Await(r, st, "findOne", Null)
      [] r.pc = "findOne" ->
            IF ~ok THEN Reject(r, st)
            ELSE IF FindCategoryByName(st, r.body.name.value) # {}
            THEN Respond(r, st, 400, Error("Category with this name already exists"))
            ELSE Await(r, st, "create", Null)
      [] r.pc = "create" ->
            IF ~ok THEN Catch(r, st)
            ELSE LET category == [id |-> st.seq.Category + 1, name |-> r.body.name.value]
                 IN Respond(r, InsertCategory(st, category), 201, category)

\* faulty variant: the category is looked up before the name is validated
PutCategoryLookupFirst(r, st, ok) ==
    CASE r.pc = "arrived" -> Await(r, st, "findByPk", Null)
      [] r.pc = "findByPk" ->
            IF ~ok THEN Catch(r, st)
            ELSE LET found == FindCategoryByPk(st, Some(r.id))
                 IN IF found = {}
                    THEN Respond(r, st, 404, Error("Category not found"))
                    ELSE IF ~TruthyStr(r.body.name)
                    THEN Respond(r, st, 400, Error("Category name is required"))
                    ELSE LET category == CHOOSE c \in found : TRUE
                         IN Await(r, st, "save",
                                  [category EXCEPT !.name = r.body.name.value])
      [] r.pc = "save" ->
            IF ~ok THEN Catch(r, st)
            ELSE Respond(r, SaveCategory(st, r.row), 200, r.row)

\* app.put('/categories/:id')
PutCategory(r, st, ok) ==
    CASE r.pc = "arrived" ->
            IF ~TruthyStr(r.body.name)
            THEN Respond(r, st, 400, Error("Category name is required"))
            ELSE Await(r, st, "findByPk", Null)
      [] r.pc = "findByPk" ->
            IF ~ok THEN Catch(r, st)
            ELSE LET found == FindCategoryByPk(st, Some(r.id))
                 IN IF found = {}
                    THEN Respond(r, st, 404, Error("Category not found"))
                    ELSE LET category == CHOOSE c \in found : TRUE
                         IN Await(r, st, "save",
                                  [category EXCEPT !.name = r.body.name.value])
      [] r.pc = "save" ->
            IF ~ok THEN Catch(r, st)
            ELSE Respond(r, SaveCategory(st, r.row), 200, r.row)

\* faulty variant: the row is destroyed before the deletion is declined
DeleteCategoryDestroyFirst(r, st, ok) ==
    CASE r.pc = "arrived" -> Await(r, st, "findByPk", Null)
      [] r.pc = "findByPk" ->
            IF ~ok THEN Catch(r, st)
            ELSE LET found == FindCategoryByPk(st, Some(r.id))
                 IN IF found = {}
                    THEN Respond(r, st, 404, Error("Category not found"))
                    ELSE Await(r, st, "count", CHOOSE c \in found : TRUE)
      [] r.pc = "count" ->
            IF ~ok THEN Catch(r, st)
            ELSE IF CountExpenses(st, r.id) > 0
            THEN Respond(r, DestroyCategory(st, r.row), 400,
                         Error("Category has associated expenses. Deletion declined."))
            ELSE Await(r, st, "destroy", r.row)
      [] r.pc = "destroy" ->
            IF ~ok THEN Catch(r, st)
            ELSE Respond(r, DestroyCategory(st, r.row), 200,
                         [message |-> "Category deleted successfully"])

\* app.delete('/categories/:id')
DeleteCategory(r, st, ok) ==
    CASE r.pc = "arrived" -> Await(r, st, "findByPk", Null)
      [] r.pc = "findByPk" ->
            IF ~ok THEN Catch(r, st)
            ELSE LET found == FindCategoryByPk(st, Some(r.id))
                 IN IF found = {}
                    THEN Respond(r, st, 404, Error("Category not found"))
                    ELSE Await(r, st, "count", CHOOSE c \in found : TRUE)
      [] r.pc = "count" ->
            IF ~ok THEN Catch(r, st)
            ELSE IF CountExpenses(st, r.id) > 0
            THEN Respond(r, st, 400,
                         Error("Category has associated expenses. Deletion declined."))
            ELSE Await(r, st, "destroy", r.row)
      [] r.pc = "destroy" ->
            IF ~ok THEN Catch(r, st)
            ELSE Respond(r, DestroyCategory(st, r.row), 200,
                         [message |-> "Category deleted successfully"])

---------------------------------------------------------------------------
(* Expense routes *)

\* app.get('/expenses')
GetExpenses(r, st, ok) ==
    CASE r.pc = "arrived" -> Await(r, st, "findAll", Null)
      [] r.pc = "findAll" ->
            IF ~ok THEN Catch(r, st)
            ELSE Respond(r, st, 200, {WithCategory(st, e) : e \in st.Expense})

\* app.get('/expenses/:id')
GetExpense(r, st, ok) ==
    CASE r.pc = "arrived" -> Await(r, st, "findByPk", Null)
      [] r.pc = "findByPk" ->
            IF ~ok THEN Catch(r, st)
            ELSE LET found == FindExpenseByPk(st, r.id)
                 IN IF found = {}
                    THEN Respond(r, st, 404, Error("Expense not found"))
                    ELSE Respond(r, st, 200,
                                 WithCategory(st, CHOOSE e \in found : TRUE))

\* the value create() gives a column: NULL for a field that is undefined or
\* null.  NullAmount and NullDescription stand for NULL in their columns.
NullAmount == -1
NullDescription == "NULL"
ColumnValue(x, null) == IF x \in Nullish THEN null ELSE x.value

\* faulty variant: allowNull: false declared on amount only
NotNullViolationAmountOnly(body) == body.amount \in Nullish

\* allowNull: false on amount and description: Expense.create rejects a
\* missing value before any INSERT is issued
NotNullViolation(body) ==
    body.amount \in Nullish \/ body.description \in Nullish

\* app.post('/expenses')
PostExpenses(r, st, ok) ==
    CASE r.pc = "arrived" -> Await(r, st, "findByPk", Null)
      [] r.pc = "findByPk" ->
            IF ~ok THEN Reject(r, st)
            ELSE IF FindCategoryByPk(st, r.body.categoryId) = {}
            THEN Respond(r, st, 400, Error("Category not found"))
            ELSE Await(r, st, "create", Null)
      [] r.pc = "create" ->
            IF \/ ~ok
               \/ NotNullViolation(r.body)
               \/ ForeignKeyViolation(st, r.body.categoryId.value)
            THEN Catch(r, st)
            ELSE LET expense ==
                        [id |-> st.seq.Expense + 1,
                         amount |-> ColumnValue(r.body.amount, NullAmount),
                         description |->
                             ColumnValue(r.body.description, NullDescription),
                         date |-> NewDate(r.body.date),
                         categoryId |-> r.body.categoryId.value]
                 IN Respond(r, InsertExpense(st, expense), 201, expense)

\* lines 207-210: x = supplied || x for each field
Assign(expense, body) ==
    [id |-> expense.id,
     amount |-> IF TruthyNum(body.amount) THEN body.amount.value ELSE expense.amount,
     description |-> IF TruthyStr(body.description) THEN body.description.value
                     ELSE expense.description,
     categoryId |-> IF TruthyNum(body.categoryId) THEN body.categoryId.value
                    ELSE expense.categoryId,
     date |-> IF TruthyStr(body.date) THEN body.date.value ELSE expense.date]

\* faulty variant: the category is looked up only when a categoryId is given
PutExpenseOptionalCategory(r, st, ok) ==
    CASE r.pc = "arrived" -> Await(r, st, "findByPk", Null)
      [] r.pc = "findByPk" ->
            IF ~ok THEN Catch(r, st)
            ELSE LET found == FindExpenseByPk(st, r.id)
                 IN IF found = {}
                    THEN Respond(r, st, 404, Error("Expense not found"))
                    ELSE Await(r, st, "findCategory", CHOOSE e \in found : TRUE)
      [] r.pc = "findCategory" ->
            IF ~ok THEN Catch(r, st)
            ELSE IF TruthyNum(r.body.categoryId)
                    /\ FindCategoryByPk(st, r.body.categoryId) = {}
            THEN Respond(r, st, 400, Error("Category not found"))
            ELSE Await(r, st, "save", r.row)
      [] r.pc = "save" ->
            LET expense == Assign(r.row, r.body)
            IN IF ~ok THEN Catch(r, st)
               ELSE Respond(r, SaveExpense(st, expense, r.row), 200, expense)

\* app.put('/expenses/:id')
PutExpense(r, st, ok) ==
    CASE r.pc = "arrived" -> Await(r, st, "findByPk", Null)
      [] r.pc = "findByPk" ->
            IF ~ok THEN Catch(r, st)
            ELSE LET found == FindExpenseByPk(st, r.id)
                 IN IF found = {}
                    THEN Respond(r, st, 404, Error("Expense not found"))
                    ELSE Await(r, st, "findCategory", CHOOSE e \in found : TRUE)
      [] r.pc = "findCategory" ->
            IF ~ok THEN Catch(r, st)
            ELSE IF FindCategoryByPk(st, r.body.categoryId) = {}
            THEN Respond(r, st, 400, Error("Category not found"))
            ELSE Await(r, st, "save", r.row)
      [] r.pc = "save" ->
            LET expense == Assign(r.row, r.body)
            IN IF \/ ~ok
                  \/ /\ expense.categoryId # r.row.categoryId
                     /\ FindExpenseByPk(st, expense.id) # {}
                     /\ ForeignKeyViolation(st, expense.categoryId)
               THEN Catch(r, st)
               ELSE Respond(r, SaveExpense(st, expense, r.row), 200, expense)

\* app.delete('/expenses/:id')
DeleteExpense(r, st, ok) ==
    CASE r.pc = "arrived" -> Await(r, st, "findByPk", Null)
      [] r.pc = "findByPk" ->
            IF ~ok THEN Catch(r, st)
            ELSE LET found == FindExpenseByPk(st, r.id)
                 IN IF found = {}
                    THEN Respond(r, st, 404, Error("Expense not found"))
                    ELSE Await(r, st, "destroy", CHOOSE e \in found : TRUE)
      [] r.pc = "destroy" ->
            IF ~ok THEN Catch(r, st)
            ELSE Respond(r, DestroyExpense(st, r.row), 200,
                         [message |-> "Expense deleted successfully"])

---------------------------------------------------------------------------
(* Running a handler *)

\* Express routing: the handler registered for the request's method and path
Step(r, st, ok) ==
    CASE r.route = "GET /categories" -> GetCategories(r, st, ok)
      [] r.route = "POST /categories" -> PostCategories(r, st, ok)
      [] r.route = "PUT /categories/:id" -> PutCategory(r, st, ok)
      [] r.route = "DELETE /categories/:id" -> DeleteCategory(r, st, ok)
      [] r.route = "GET /expenses" -> GetExpenses(r, st, ok)
      [] r.route = "GET /expenses/:id" -> GetExpense(r, st, ok)
      [] r.route = "POST /expenses" -> PostExpenses(r, st, ok)
      [] r.route = "PUT /expenses/:id" -> PutExpense(r, st, ok)
      [] r.route = "DELETE /expenses/:id" -> DeleteExpense(r, st, ok)

\* the handler run from a request's arrival to its end with no other request
\* in between; the store call number failAt (0: none) is the one that fails
RECURSIVE Run(_, _, _, _)
Run(r, st, call, failAt) ==
    IF r.pc \in Finished THEN [req |-> r, st |-> st]
    ELSE LET next == Step(r, st, ~(r.pc # "arrived" /\ call = failAt))
         IN Run(next.req, next.st,
                IF r.pc = "arrived" THEN call ELSE call + 1, failAt)

---------------------------------------------------------------------------
(* Requests a client can send *)

CategoryRouteIds == 1..MaxCategoryId
ExpenseRouteIds == 1..MaxExpenseId

Bodies(names, amounts, descriptions, categoryIds, dates) ==
    {[name |-> n, amount |-> a, description |-> d, categoryId |-> c, date |-> t] :
        n \in names, a \in amounts, d \in descriptions, c \in categoryIds,
        t \in dates}

CategoryBodies ==
    Bodies(NameInputs, {Undefined}, {Undefined}, {Undefined}, {Undefined})
OneNameBodies ==
    Bodies({Some("Food")}, {Undefined}, {Undefined}, {Undefined}, {Undefined})

\* every combination of the expense fields, for a category given by its id
ExpenseBodies ==
    Bodies({Undefined}, AmountInputs, DescriptionInputs,
           {Undefined} \cup {Some(i) : i \in 1..MaxCategoryId}, DateInputs)
\* expenses that differ in their category and in whether an amount is given
PlainExpenseBodies ==
    Bodies({Undefined}, {Undefined, Some(5)}, {Some("Lunch")}, CategoryIdInputs,
           {Some("2024-01-01")})

\* two clients whose requests may be in flight at the same time
Clients == {"a", "b"}

\* what they send: every route that writes, well-formed bodies
ConcurrentCategoryBodies ==
    Bodies({Some("Food")}, {Undefined}, {Undefined}, {Undefined}, {Undefined})
ConcurrentExpenseBodies ==
    Bodies({Undefined}, {Some(5)}, {Some("Lunch")},
           {Some(i) : i \in 1..MaxCategoryId}, {Some("2024-01-01")})
ConcurrentRequests ==
    {Request("POST /categories", 0, b) : b \in ConcurrentCategoryBodies}
    \cup {Request("PUT /categories/:id", i, b) :
             i \in CategoryRouteIds, b \in ConcurrentCategoryBodies}
    \cup {Request("DELETE /categories/:id", i, NoBody) : i \in CategoryRouteIds}
    \cup {Request("POST /expenses", 0, b) : b \in ConcurrentExpenseBodies}
    \cup {Request("PUT /expenses/:id", i, b) :
             i \in ExpenseRouteIds, b \in ConcurrentExpenseBodies}
    \cup {Request("DELETE /expenses/:id", i, NoBody) : i \in ExpenseRouteIds}

\* the store calls a handler makes are numbered 1, 2, 3; fault 0 is none
NoFault == {0}
AnyFault == 0..3

---------------------------------------------------------------------------
(* Actions.  Handlers run one at a time: a request is served from its      *)
(* arrival to its response (Serve), and the next one arrives after that    *)
(* exchange is over (Close).  faults is the set of store calls that may    *)
(* fail, bodies the request bodies a client sends.                         *)

Init ==
    /\ Category = {}
    /\ Expense = {}
    /\ seq = [Category |-> 0, Expense |-> 0]
    /\ last = Idle
    /\ before = [Category |-> {}, Expense |-> {}, seq |-> seq]
    /\ inflight = [client \in Clients |-> Idle]

Serve(request, faults) ==
    \E failAt \in faults :
        LET result == Run(request, Tables, 1, failAt)
        IN /\ result.st.seq.Category <= MaxCategoryId
           /\ result.st.seq.Expense <= MaxExpenseId
           /\ Category' = result.st.Category
           /\ Expense' = result.st.Expense
           /\ seq' = result.st.seq
           /\ last' = result.req
           /\ before' = Tables
           /\ UNCHANGED inflight

Close ==
    /\ last # Idle
    /\ last' = Idle
    /\ before' = Tables
    /\ UNCHANGED <<Category, Expense, seq, inflight>>

GET_categories(faults) ==
    /\ last = Idle
    /\ Serve(Request("GET /categories", 0, NoBody), faults)

POST_categories(faults, bodies) ==
    /\ last = Idle
    /\ \E body \in bodies :
        Serve(Request("POST /categories", 0, body), faults)

PUT_categories_id(faults, bodies) ==
    /\ last = Idle
    /\ \E id \in CategoryRouteIds, body \in bodies :
        Serve(Request("PUT /categories/:id", id, body), faults)

DELETE_categories_id(faults) ==
    /\ last = Idle
    /\ \E id \in CategoryRouteIds :
        Serve(Request("DELETE /categories/:id", id, NoBody), faults)

GET_expenses(faults) ==
    /\ last = Idle
    /\ Serve(Request("GET /expenses", 0, NoBody), faults)

GET_expenses_id(faults) ==
    /\ last = Idle
    /\ \E id \in ExpenseRouteIds :
        Serve(Request("GET /expenses/:id", id, NoBody), faults)

POST_expenses(faults, bodies) ==
    /\ last = Idle
    /\ \E body \in bodies :
        Serve(Request("POST /expenses", 0, body), faults)

PUT_expenses_id(faults, bodies) ==
    /\ last = Idle
    /\ \E id \in ExpenseRouteIds, body \in bodies :
        Serve(Request("PUT /expenses/:id", id, body), faults)

DELETE_expenses_id(faults) ==
    /\ last = Idle
    /\ \E id \in ExpenseRouteIds :
        Serve(Request("DELETE /expenses/:id", id, NoBody), faults)

\* handlers run one at a time against a store whose calls all succeed
Next ==
    \/ GET_categories(NoFault)
    \/ POST_categories(NoFault, CategoryBodies)
    \/ PUT_categories_id(NoFault, CategoryBodies)
    \/ DELETE_categories_id(NoFault)
    \/ GET_expenses(NoFault)
    \/ GET_expenses_id(NoFault)
    \/ POST_expenses(NoFault, PlainExpenseBodies)
    \/ PUT_expenses_id(NoFault, PlainExpenseBodies)
    \/ DELETE_expenses_id(NoFault)
    \/ Close

Spec == Init /\ [][Next]_vars

\* the same, with every combination of expense fields and one category name
NextFields ==
    \/ GET_categories(NoFault)
    \/ POST_categories(NoFault, OneNameBodies)
    \/ PUT_categories_id(NoFault, OneNameBodies)
    \/ DELETE_categories_id(NoFault)
    \/ GET_expenses(NoFault)
    \/ GET_expenses_id(NoFault)
    \/ POST_expenses(NoFault, ExpenseBodies)
    \/ PUT_expenses_id(NoFault, ExpenseBodies)
    \/ DELETE_expenses_id(NoFault)
    \/ Close

SpecFields == Init /\ [][NextFields]_vars

\* handlers run one at a time against a store any call of which may fail
NextFaulty ==
    \/ GET_categories(AnyFault)
    \/ POST_categories(AnyFault, CategoryBodies)
    \/ PUT_categories_id(AnyFault, CategoryBodies)
    \/ DELETE_categories_id(AnyFault)
    \/ GET_expenses(AnyFault)
    \/ GET_expenses_id(AnyFault)
    \/ POST_expenses(AnyFault, PlainExpenseBodies)
    \/ PUT_expenses_id(AnyFault, PlainExpenseBodies)
    \/ DELETE_expenses_id(AnyFault)
    \/ Close

SpecFaulty == Init /\ [][NextFaulty]_vars

---------------------------------------------------------------------------
(* Requests in flight together.  The event loop runs one handler at a time *)
(* from one await to the next: a request arrives and its handler runs up   *)
(* to its first store call (Arrive); a store call of one of the suspended  *)
(* handlers completes and that handler runs on to its next store call or   *)
(* to its response (Resume); the exchange of a finished one ends (Depart), *)
(* which no handler can observe, so it is taken before the next arrival.   *)

Arrive(client) ==
    /\ \A c \in Clients : inflight[c].pc \notin Finished
    /\ inflight[client] = Idle
    /\ \E request \in ConcurrentRequests :
          inflight' = [inflight EXCEPT ![client] = Step(request, Tables, TRUE).req]
    /\ UNCHANGED <<Category, Expense, seq, last, before>>

Resume(client) ==
    /\ inflight[client].pc \notin Finished \cup {"idle"}
    /\ LET next == Step(inflight[client], Tables, TRUE)
       IN /\ next.st.seq.Category <= MaxCategoryId
          /\ next.st.seq.Expense <= MaxExpenseId
          /\ Category' = next.st.Category
          /\ Expense' = next.st.Expense
          /\ seq' = next.st.seq
          /\ inflight' = [inflight EXCEPT ![client] = next.req]
    /\ UNCHANGED <<last, before>>

Depart(client) ==
    /\ inflight[client].pc \in Finished
    /\ inflight' = [inflight EXCEPT ![client] = Idle]
    /\ UNCHANGED <<Category, Expense, seq, last, before>>

NextConcurrent ==
    \E client \in Clients : Arrive(client) \/ Resume(client) \/ Depart(client)

SpecConcurrent == Init /\ [][NextConcurrent]_vars

---------------------------------------------------------------------------
(* Properties *)

Responded(route) == last.route = route /\ last.pc = "responded"

\* the rows of a table with a given name / id / category
Named(rows, name) == {c \in rows : c.name = name}
WithId(rows, id) == {x \in rows : x.id = id}
Referencing(rows, categoryId) == {e \in rows : e.categoryId = categoryId}

\* the request served right after the last one, nothing in between
Then(route, id, body) == Run(Request(route, id, body), Tables, 1, 0).req

\* C1: in every state reached by category create, update and delete
\* requests served one at a time, no two persisted Category rows have the
\* same name.
C1_UniqueNames ==
    \A c1, c2 \in Category : c1.name = c2.name => c1.id = c2.id

\* C2: with handlers served one at a time, the categoryId of every
\* persisted Expense is the id of a persisted Category, whatever sequence of
\* expense and category requests was served (store calls may fail).
C2_ReferentialIntegrity ==
    \A e \in Expense : WithId(Category, e.categoryId) # {}

\* a category was deleted while expenses referencing the others persist
C2_Witness ==
    /\ Responded("DELETE /categories/:id")
    /\ last.status = 200
    /\ Expense # {}
    /\ Category # {}

\* C3: when POST /categories with a non-empty name has completed and the
\* same request is served next, that second request responds 400 and the
\* number of Category rows with that name is what it was.
C3_SecondCreateRejected ==
    (Responded("POST /categories") /\ TruthyStr(last.body.name)) =>
        LET second == Run(Request("POST /categories", 0, last.body), Tables, 1, 0)
        IN /\ second.req.pc = "responded"
           /\ second.req.status = 400
           /\ Cardinality(Named(second.st.Category, last.body.name.value))
                = Cardinality(Named(Category, last.body.name.value))

\* a second POST with a name that a first one had created was turned down
C3_Witness ==
    /\ Responded("POST /categories")
    /\ TruthyStr(last.body.name)
    /\ last.status = 400
    /\ Cardinality(Named(before.Category, last.body.name.value)) = 1
    /\ Category = before.Category

\* C4: DELETE /categories/:id for a persisted category that at least one
\* persisted Expense references responds 400, and leaves every Category and
\* every Expense row as it was.
C4_GuardedDelete ==
    (/\ Responded("DELETE /categories/:id")
     /\ WithId(before.Category, last.id) # {}
     /\ Referencing(before.Expense, last.id) # {}) =>
        /\ last.status = 400
        /\ Category = before.Category
        /\ Expense = before.Expense

C4_Witness ==
    /\ Responded("DELETE /categories/:id")
    /\ WithId(before.Category, last.id) # {}
    /\ Referencing(before.Expense, last.id) # {}

\* C5: POST /expenses whose categoryId is omitted or is the id of no
\* persisted Category responds 400 and leaves the Expense rows as they were.
C5_UnknownCategoryRejected ==
    (/\ Responded("POST /expenses")
     /\ \/ last.body.categoryId \in {Undefined, JsonNull}
        \/ WithId(before.Category, last.body.categoryId.value) = {}) =>
        /\ last.status = 400
        /\ Expense = before.Expense
        /\ seq = before.seq

\* both cases: categoryId omitted, and the id of a category that is gone
C5_Witness ==
    /\ Responded("POST /expenses")
    /\ last.body.categoryId \notin {Undefined, JsonNull}
    /\ last.body.categoryId.value # 0
    /\ WithId(before.Category, last.body.categoryId.value) = {}
    /\ before.Category # {}
    /\ last.body.amount # Undefined

\* C6: once a POST /categories with a non-empty name has completed,
\* whatever its status, GET /categories returns exactly one record with
\* that name.
C6_ListedOnce ==
    (Responded("POST /categories") /\ TruthyStr(last.body.name)) =>
        LET list == Then("GET /categories", 0, NoBody)
        IN /\ list.status = 200
           /\ Cardinality(Named(list.out, last.body.name.value)) = 1

\* C7: whichever store call of whichever handler fails, the handler
\* responds with status 500 and a JSON body {error: message}.
C7_StoreFailureAnswered ==
    last.thrown # "none" =>
        /\ last.pc = "responded"
        /\ last.status = 500
        /\ last.json
        /\ DOMAIN last.out = {"error"}

\* C8: PUT /expenses/:id on a persisted expense with the categoryId of a
\* persisted category responds 200, and each of amount, description and
\* date is the supplied value if that is truthy and the stored one if it
\* is omitted, 0 or the empty string.
C8_TruthyReplace ==
    (/\ Responded("PUT /expenses/:id")
     /\ WithId(before.Expense, last.id) # {}
     /\ last.body.categoryId \notin {Undefined, JsonNull}
     /\ WithId(before.Category, last.body.categoryId.value) # {}) =>
        /\ last.status = 200
        /\ \A old \in WithId(before.Expense, last.id) :
             \E new \in WithId(Expense, last.id) :
                /\ new.amount = IF last.body.amount \in {Undefined, JsonNull, Some(0)}
                                THEN old.amount ELSE last.body.amount.value
                /\ new.description = IF last.body.description \in {Undefined, JsonNull, Some("")}
                                     THEN old.description
                                     ELSE last.body.description.value
                /\ new.date = IF last.body.date \in {Undefined, JsonNull, Some("")}
                              THEN old.date ELSE last.body.date.value

\* amount 0 was supplied for an expense whose amount is 5, with a new
\* description, and the amount is still 5
C8_Witness ==
    /\ Responded("PUT /expenses/:id")
    /\ last.status = 200
    /\ last.body.amount = Some(0)
    /\ last.body.description = Some("Lunch")
    /\ \E old \in WithId(before.Expense, last.id), new \in WithId(Expense, last.id) :
          /\ old.amount = 5 /\ new.amount = 5
          /\ old.description = "" /\ new.description = "Lunch"

\* C9: DELETE /categories/:id for a persisted category that no Expense
\* references responds 200 and removes that category and nothing else: it
\* is no longer listed, every other Category and every Expense is as it was.
C9_UnreferencedDelete ==
    (/\ Responded("DELETE /categories/:id")
     /\ WithId(before.Category, last.id) # {}
     /\ Referencing(before.Expense, last.id) = {}) =>
        /\ last.status = 200
        /\ Category = before.Category \ WithId(before.Category, last.id)
        /\ Expense = before.Expense
        /\ WithId(Then("GET /categories", 0, NoBody).out, last.id) = {}

\* a category was deleted while another one with the same name and an
\* expense of that other one stay
C9_Witness ==
    /\ Responded("DELETE /categories/:id")
    /\ last.status = 200
    /\ Expense # {}
    /\ \E gone \in before.Category, kept \in Category :
          gone.id = last.id /\ kept.name = gone.name

\* C10: after POST /expenses answered 201 for categoryId c, GET
\* /expenses/:id with the returned id answers 200 with that expense joined
\* with the Category whose id is c, and the returned id is the id of no
\* other persisted expense.
C10_CreatedThenFetched ==
    (Responded("POST /expenses") /\ last.status = 201) =>
        LET created == last.out
            fetched == Then("GET /expenses/:id", created.id, NoBody)
        IN /\ fetched.status = 200
           /\ fetched.out.id = created.id
           /\ fetched.out.amount = last.body.amount.value
           /\ fetched.out.description = last.body.description.value
           /\ fetched.out.categoryId = last.body.categoryId.value
           /\ fetched.out.date = created.date
           /\ fetched.out.Category \in Category
           /\ fetched.out.Category.id = last.body.categoryId.value
           /\ Cardinality(WithId(Expense, created.id)) = 1
           /\ WithId(before.Expense, created.id) = {}

\* a second expense was created, in a category other than the first one's;
\* its own id is not the id of its category
C10_Witness ==
    /\ Responded("POST /expenses")
    /\ last.status = 201
    /\ \E other \in before.Expense :
          /\ other.categoryId # last.body.categoryId.value
          /\ last.out.id # last.body.categoryId.value


---------------------------------------------------------------------------
(* Requests in flight together *)

Succeeded(r) == r.pc = "responded" /\ r.status \in {200, 201}

\* an expense write for category c that has passed its category lookup and
\* is suspended on its INSERT or UPDATE
WritesExpenseFor(r, c) ==
    /\ \/ r.route = "POST /expenses" /\ r.pc = "create"
       \/ r.route = "PUT /expenses/:id" /\ r.pc = "save"
    /\ r.body.categoryId = Some(c)

\* a DELETE /categories/c that has passed its count and is suspended on its
\* DELETE
DestroysCategory(r, c) ==
    r.route = "DELETE /categories/:id" /\ r.pc = "destroy" /\ r.id = c

\* the two suspended handlers first and second resumed in that order
InOrder(first, second) ==
    LET one == Step(first, Tables, TRUE)
        two == Step(second, one.st, TRUE)
    IN [first |-> one.req, second |-> two.req, mid |-> one.st, st |-> two.st]

Dangling(st, c) ==
    /\ \E e \in st.Expense : e.categoryId = c
    /\ \A category \in st.Category : category.id # c

\* C11 as claimed: an expense write for category c that has passed its lookup
\* and a DELETE /categories/c that has passed its count can be completed, in
\* one order or the other, so that both answer with a success status and a
\* persisted Expense references c although no Category c is persisted.
C11_DanglingReference ==
    \A w, d \in Clients, c \in CategoryRouteIds :
        WritesExpenseFor(inflight[w], c) /\ DestroysCategory(inflight[d], c) =>
            \E run \in {InOrder(inflight[w], inflight[d]),
                        [first |-> InOrder(inflight[d], inflight[w]).second,
                         second |-> InOrder(inflight[d], inflight[w]).first,
                         mid |-> InOrder(inflight[d], inflight[w]).mid,
                         st |-> InOrder(inflight[d], inflight[w]).st]} :
                /\ Succeeded(run.first)
                /\ Succeeded(run.second)
                /\ Dangling(run.st, c)

\* the write stores c: an INSERT, or an UPDATE of an expense that was read
\* with another categoryId (save() updates the fields that were changed)
StoresCategory(r, c) ==
    WritesExpenseFor(r, c) /\ (r.route = "PUT /expenses/:id" => r.row.categoryId # c)

\* C11, amended: with requests interleaved at store-call granularity no
\* persisted Expense ever references a category that is not persisted.  When
\* an expense write for c and DELETE /categories/c are both past their
\* checks, the deletion answers 200 in either order and afterwards neither
\* Category c nor an Expense referencing c is persisted.  If the expense is
\* written first, both answer with a success status, and the deletion sets
\* to null the categoryId c that the write stored.  If the category is
\* destroyed first, a write that stores c persists nothing, and answers 500
\* (foreign key) when it is a POST or its expense is still persisted.
C11_NoDanglingReference ==
    /\ \A e \in Expense :
          e.categoryId = NullId \/ \E c \in Category : c.id = e.categoryId
    /\ \A w, d \in Clients, c \in CategoryRouteIds :
          WritesExpenseFor(inflight[w], c) /\ DestroysCategory(inflight[d], c) =>
             /\ LET run == InOrder(inflight[w], inflight[d])
                    written == IF inflight[w].route = "POST /expenses"
                               THEN seq.Expense + 1 ELSE inflight[w].id
                IN /\ Succeeded(run.first)
                   /\ Succeeded(run.second)
                   /\ Referencing(run.st.Expense, c) = {}
                   /\ WithId(run.st.Category, c) = {}
                   /\ StoresCategory(inflight[w], c) =>
                         /\ inflight[w].route = "POST /expenses" =>
                               WithId(run.mid.Expense, written) # {}
                         /\ \A e \in WithId(run.mid.Expense, written) :
                               e.categoryId = c
                         /\ \A e \in WithId(run.st.Expense, written) :
                               e.categoryId = NullId
                         /\ {e.id : e \in run.st.Expense}
                               = {e.id : e \in run.mid.Expense}
             /\ LET run == InOrder(inflight[d], inflight[w])
                IN /\ Succeeded(run.first)
                   /\ run.second.pc = "responded"
                   /\ Referencing(run.st.Expense, c) = {}
                   /\ WithId(run.st.Category, c) = {}
                   /\ StoresCategory(inflight[w], c) =>
                         /\ run.st.Expense = run.mid.Expense
                         /\ run.st.seq = seq
                         /\ (inflight[w].route = "POST /expenses"
                               \/ WithId(Expense, inflight[w].id) # {})
                            => run.second.status = 500

\* both requests have been answered with a success status, the expense that
\* was written for category c is persisted with a null categoryId and no
\* Category c is persisted
C11_Witness ==
    \E w, d \in Clients :
        /\ inflight[w].route \in {"POST /expenses", "PUT /expenses/:id"}
        /\ Succeeded(inflight[w])
        /\ inflight[d].route = "DELETE /categories/:id"
        /\ Succeeded(inflight[d])
        /\ inflight[w].out.categoryId = inflight[d].id
        /\ WithId(Category, inflight[d].id) = {}
        /\ \E e \in Expense :
              e.id = inflight[w].out.id /\ e.categoryId = NullId


\* a POST /categories that has passed its lookup by name and is suspended
\* on its INSERT
CreatesCategory(r, name) ==
    r.route = "POST /categories" /\ r.pc = "create" /\ r.body.name = Some(name)

\* C12: when two POST /categories with the same non-empty name have both run
\* their lookup before either insert, both respond 201 and two more Category
\* rows with that name are persisted, whichever insert comes first.
C12_BothCreated ==
    \A x, y \in Clients, name \in Names :
        x # y /\ CreatesCategory(inflight[x], name)
              /\ CreatesCategory(inflight[y], name) =>
            LET run == InOrder(inflight[x], inflight[y])
            IN /\ run.first.pc = "responded" /\ run.first.status = 201
               /\ run.second.pc = "responded" /\ run.second.status = 201
               /\ run.first.out.id # run.second.out.id
               /\ Named(run.st.Category, name)
                     = Named(Category, name) \cup {run.first.out, run.second.out}
               /\ {run.first.out, run.second.out} \cap Category = {}
               /\ Cardinality(Named(run.st.Category, name)) >= 2

\* both requests have been answered 201 and the two rows they created, of
\* the same name, are persisted
C12_Witness ==
    \E x, y \in Clients :
        /\ x # y
        /\ inflight[x].route = "POST /categories" /\ inflight[x].status = 201
        /\ inflight[y].route = "POST /categories" /\ inflight[y].status = 201
        /\ inflight[x].out.name = inflight[y].out.name
        /\ inflight[x].out.id # inflight[y].out.id
        /\ {inflight[x].out, inflight[y].out} \subseteq Category


---------------------------------------------------------------------------
(* Updates *)

\* C13: PUT /expenses/:id on an existing expense with categoryId omitted,
\* null or 0 responds 400 and leaves the expense (and every other row) as it
\* was, whatever amount, description and date are supplied.
C13_CategoryIdMandatory ==
    /\ Responded("PUT /expenses/:id")
    /\ WithId(before.Expense, last.id) # {}
    /\ ~TruthyNum(last.body.categoryId)
    => /\ last.status = 400
       /\ last.out = Error("Category not found")
       /\ Expense = before.Expense
       /\ Category = before.Category

\* such an update, supplying an amount, has been answered
C13_Witness ==
    /\ Responded("PUT /expenses/:id")
    /\ WithId(before.Expense, last.id) # {}
    /\ last.body.categoryId = Undefined
    /\ TruthyNum(last.body.amount)
    /\ TruthyStr(last.body.description)
    /\ TruthyStr(last.body.date)
    /\ last.status = 400


\* C14: PUT /categories/:id answers 400 for a missing or empty name even when
\* the id does not exist; otherwise 404 for an id that does not exist;
\* otherwise 200, and it overwrites the name of that category and nothing
\* else (its id, the other categories and all expenses are as before), also
\* when another persisted category already has that name.
C14_RenameOrder ==
    Responded("PUT /categories/:id") =>
        IF ~TruthyStr(last.body.name)
        THEN /\ last.status = 400
             /\ last.out = Error("Category name is required")
             /\ Tables = before
        ELSE IF WithId(before.Category, last.id) = {}
        THEN /\ last.status = 404
             /\ last.out = Error("Category not found")
             /\ Tables = before
        ELSE /\ last.status = 200
             /\ last.out = [id |-> last.id, name |-> last.body.name.value]
             /\ Category = {c \in before.Category : c.id # last.id} \cup {last.out}
             /\ Cardinality(Category) = Cardinality(before.Category)
             /\ Expense = before.Expense
             /\ seq = before.seq

\* a category has been given the name another persisted category has
C14_Witness ==
    /\ Responded("PUT /categories/:id")
    /\ last.status = 200
    /\ \E c \in before.Category : c.id # last.id /\ c.name = last.body.name.value
    /\ \E c \in before.Category : c.id = last.id /\ c.name # last.body.name.value
    /\ Cardinality(Named(Category, last.body.name.value)) = 2


---------------------------------------------------------------------------
(* Deleting a category after its expenses *)

\* DELETE /expenses/:id served for each of the ids, one after the other
RECURSIVE RemoveAll(_, _)
RemoveAll(st, ids) ==
    IF ids = {} THEN [st |-> st, statuses |-> {}]
    ELSE LET id == CHOOSE i \in ids : TRUE
             one == Run(Request("DELETE /expenses/:id", id, NoBody), st, 1, 0)
             rest == RemoveAll(one.st, ids \ {id})
         IN [st |-> rest.st, statuses |-> {one.req.status} \cup rest.statuses]

\* C15: DELETE /expenses/:id of an existing expense responds 200 and removes
\* it, whatever it references; and once DELETE /categories/c has been refused
\* with 400, removing every expense that references c with
\* DELETE /expenses/:id makes the next DELETE /categories/c respond 200 and
\* remove the category.
C15_DeletableAfterRemoval ==
    /\ Responded("DELETE /expenses/:id") /\ WithId(before.Expense, last.id) # {}
       => /\ last.status = 200
          /\ Expense = before.Expense \ WithId(before.Expense, last.id)
          /\ Category = before.Category
    /\ Responded("DELETE /categories/:id") /\ last.status = 400
       => LET c == last.id
              removed == RemoveAll(Tables, {e.id : e \in Referencing(Expense, c)})
              retry == Run(Request("DELETE /categories/:id", c, NoBody),
                           removed.st, 1, 0)
          IN /\ Referencing(Expense, c) # {}
             /\ WithId(Category, c) # {}
             /\ removed.statuses = {200}
             /\ removed.st.Expense = Expense \ Referencing(Expense, c)
             /\ removed.st.Category = Category
             /\ retry.req.pc = "responded"
             /\ retry.req.status = 200
             /\ retry.st.Category = Category \ WithId(Category, c)
             /\ retry.st.Expense = removed.st.Expense

\* the deletion of a category that two expenses reference has been refused
C15_Witness ==
    /\ Responded("DELETE /categories/:id")
    /\ last.status = 400
    /\ Cardinality(Referencing(Expense, last.id)) = 2


---------------------------------------------------------------------------
(* What a rejected request and a read leave behind *)

GetRoutes == {"GET /categories", "GET /expenses", "GET /expenses/:id"}

\* C16: a handler that responds 400 or 404, and every GET handler, leaves
\* the Category rows and the Expense rows exactly as they were when the
\* request arrived.
C16_RejectedWritesNothing ==
    /\ last.pc = "responded"
    /\ last.status \in {400, 404} \/ last.route \in GetRoutes
    => /\ Category = before.Category
       /\ Expense = before.Expense

\* a deletion has been refused with both tables populated
C16_Witness ==
    /\ last.pc = "responded"
    /\ last.route = "DELETE /categories/:id"
    /\ last.status = 400
    /\ Cardinality(Category) = 2
    /\ Expense # {}
    /\ Tables = before


---------------------------------------------------------------------------
(* Required columns *)

\* C17: every persisted Expense has an amount and a description that are
\* not null.  POST /expenses for an existing category with amount or
\* description missing responds 500 and persists no row; PUT /expenses/:id
\* leaves a stored amount or description as it was unless the body supplies
\* a value, which it then stores.
C17_RequiredColumns ==
    /\ \A e \in Expense :
          e.amount # NullAmount /\ e.description # NullDescription
    /\ /\ Responded("POST /expenses")
       /\ FindCategoryByPk(before, last.body.categoryId) # {}
       /\ last.body.amount \in Nullish \/ last.body.description \in Nullish
       => /\ last.status = 500
          /\ Tables = before
    /\ Responded("PUT /expenses/:id") =>
          \A e \in WithId(Expense, last.id) :
              \E old \in WithId(before.Expense, last.id) :
                  /\ \/ e.amount = old.amount
                     \/ /\ last.body.amount \notin Nullish
                        /\ e.amount = last.body.amount.value
                  /\ \/ e.description = old.description
                     \/ /\ last.body.description \notin Nullish
                        /\ e.description = last.body.description.value

\* an expense without a description has been refused for a category that is
\* persisted, next to an expense that is
C17_Witness ==
    /\ Responded("POST /expenses")
    /\ FindCategoryByPk(before, last.body.categoryId) # {}
    /\ TruthyNum(last.body.amount)
    /\ last.body.description = Undefined
    /\ last.status = 500
    /\ Expense # {}

====
